---- MODULE Spec2Model ----
(***************************************************************************)
(* Model of the tabify-api request handlers (src/main.py): /find-song,     *)
(* /identify-audio, /search-song and /youtube-lessons-videos.              *)
(*                                                                         *)
(* The handlers are coroutines on one asyncio event loop: everything a     *)
(* handler does between two awaits is one atomic step, so each action      *)
(* below is the code from one suspension point to the next.  The two       *)
(* asyncio.to_thread lookups and the motor find_one future run             *)
(* concurrently with the loop and complete in actions of their own.        *)
(***************************************************************************)
EXTENDS Integers, Sequences, FiniteSets, TLC

\* Number of requests taken in one behaviour, numbered in arrival order.
NumRuns == 2

Runs == 1..NumRuns

\* Minimum upload size of identify_audio ("if len(audio) < 1024").
MinAudioBytes == 1024

\* Python's None, as a value of the dict-typed variables.
None == [None |-> TRUE]

\* Python's None where the other values are strings.
NoneStr == "None"

\* The value of audio_path before the handler assigns it.
NoPath == <<"", 0, "">>

\* Query values a caller may send for yt_url ("" is the empty parameter).
YtUrls == {"", "https://youtu.be/x"}

\* Upload filenames and payload sizes a caller may send.
FileNames == {"clip.mp3"}
ContentLens == {0, 500, 1024}

\* Query values for song_name / artist_name.
SongParams == {"", "Yesterday"}
ArtistParams == {"", "The Beatles"}

\* What the recognition service can answer: a result holding a track, a
\* result without one (no match), or an exception (transport error).
MatchResult == [track |-> [title |-> "Yesterday", subtitle |-> "The Beatles"]]
NoMatchResult == [matches |-> <<>>]
RecognizeOutcomes == {"match", "nomatch", "raise"}

\* What sp.search can do: return a page with one track (with or without
\* album images), return an empty page, or raise.
SpSearchOutcomes ==
    {"track", "track_no_images", "no_items", "SpotifyException", "ValueError", "Exception"}

\* The sp.search outcomes drawn in the pipeline runs: a track, the exception
\* that escapes search_spotify and one that it turns into an error marker.
PipelineSpOutcomes == {"track", "SpotifyException", "Exception"}

\* What tabs_collection.find_one can do: return a document, return None,
\* or raise (connection error, invalid $regex built from the song name).
FindOneOutcomes == {"doc", "none", "raise"}

\* What the YouTube search request can do.
YoutubeOutcomes == {"items", "no_items", "raise"}

\* "iOS" in s, for the strings above.
HasIOS(s) == s \in {"https://youtu.be/x?iOS", "iOS-clip.m4a"}

Suffix(s) == IF HasIOS(s) THEN ".m4a" ELSE ".mp3"

\* tempfile.mktemp: a name that no earlier call returned; n counts the calls.
mktemp(n, suffix) == <<"/tmp", n + 1, suffix>>

\* The path download_audio writes to.
download_audio_path(shm, n, yt_url) ==
    IF shm THEN <<"/dev/shm", 0, Suffix(yt_url)>>
    ELSE mktemp(n, Suffix(yt_url))

\* identify_song: the recognizer's result, or an error dict when reading the
\* file or the recognizer raised.
identify_song(readable, outcome) ==
    IF ~readable THEN [error |-> "Shazam failed: open"]
    ELSE CASE outcome = "match" -> MatchResult
           [] outcome = "nomatch" -> NoMatchResult
           [] OTHER -> [error |-> "Shazam failed: recognize"]

\* "not song_info or 'track' not in song_info" negated.
HasTrack(song_info) == song_info # None /\ "track" \in DOMAIN song_info

\* search_spotify: [raised, value]; the SpotifyException handler formats
\* str(e) with e unbound, which raises NameError out of the function.
search_spotify(song_name, artist_name, outcome) ==
    CASE outcome = "track" ->
           [raised |-> FALSE,
            value |-> [song |-> song_name, artist |-> artist_name, album_art |-> "url"]]
      [] outcome = "track_no_images" ->
           [raised |-> FALSE,
            value |-> [song |-> song_name, artist |-> artist_name, album_art |-> NoneStr]]
      [] outcome = "no_items" ->
           [raised |-> FALSE, value |-> [error |-> "No results found on Spotify"]]
      [] outcome = "SpotifyException" ->
           [raised |-> TRUE, value |-> None]
      [] outcome = "ValueError" ->
           [raised |-> FALSE, value |-> [error |-> "JSON parsing error"]]
      [] OTHER ->
           [raised |-> FALSE, value |-> [error |-> "Unexpected error"]]

\* get_youtube_guitar_lessons_link: the search URL, words joined by '+'.
get_youtube_guitar_lessons_link(song_name, artist_name) ==
    [raised |-> FALSE,
     value |-> <<"https://www.youtube.com/results?tenersearch_query=",
                 song_name, "+", artist_name, "+guitar+lesson", "&sp=EgIYAw%253D%253D">>]

\* tabs_collection.find_one with the case-insensitive ^artist$ / ^title$ query.
find_one(song_name, artist_name, outcome) ==
    CASE outcome = "doc" ->
           [raised |-> FALSE,
            value |-> [artist |-> artist_name, title |-> song_name, tab_text |-> "e|--0--|"]]
      [] outcome = "none" -> [raised |-> FALSE, value |-> None]
      [] OTHER -> [raised |-> TRUE, value |-> None]

\* get_youtube_video_ids: the ids of the returned items.
get_youtube_video_ids(outcome) ==
    CASE outcome = "items" -> [raised |-> FALSE, value |-> <<"id1", "id2", "id3">>]
      [] outcome = "no_items" -> [raised |-> FALSE, value |-> <<>>]
      [] OTHER -> [raised |-> TRUE, value |-> <<"HttpError">>]

\* The value of video_ids before youtube_lessons_videos assigns it.
Unassigned == <<"unassigned">>

\* A lookup that was not started, one in flight, and a finished one.  What a
\* finished lookup returned is opaque until the handler unpacks the gather,
\* so a finished lookup only records whether it returned or raised.
NotStarted == [state |-> "none"]
Running == [state |-> "running"]
Finished(res) == [state |-> "done", raised |-> res.raised]

\* A finally block that empties the directory of the staged file.
ReleaseClearsDir(fs, path) == {q \in fs : q[1] # path[1]}

\* A finally block that leaves the staged file where it is.
ReleaseSkipped(fs, path) == fs

\* The finally block of find_song and identify_audio.
Release(fs, path) == IF path \in fs THEN fs \ {path} ELSE fs

\* HTTPException(status_code, detail) as the response the framework sends.
HTTPException(status_code, detail) == [status |-> status_code, detail |-> detail]

\* The framework's answer to an exception no handler caught.
InternalServerError == [status |-> 500, detail |-> <<"Internal Server Error">>]

\* The aggregate dict returned by the three pipeline handlers.
Aggregate(song_name, artist_name, spotify_result, tab_doc, youtube_lessons_url) ==
    [status |-> 200,
     song |-> song_name,
     artist |-> artist_name,
     spotify |-> spotify_result,
     tabs |-> IF tab_doc # None THEN tab_doc.tab_text ELSE NoneStr,
     youtube_lessons |-> youtube_lessons_url]

VARIABLES
    pc,            \* where each run's coroutine is suspended
    endpoint,      \* the handler serving the run
    audio_path,    \* the handler's audio_path
    content_len,   \* len(content) of the upload, -1 before it is read
    song_info,     \* the handler's song_info
    song_name,     \* the handler's song_name
    artist_name,   \* the handler's artist_name
    tasks,         \* the three lookups of the run
    response,      \* the HTTP response of the run
    video_ids,     \* the handler's video_ids
    files,         \* the paths that exist on the file system
    mktemp_calls,  \* number of tempfile.mktemp calls so far
    shm_exists     \* os.path.exists("/dev/shm")

\* One call of search_tabs.
VARIABLES
    tabs_pc,              \* "off" (no call), "called" or "returned"
    tab_song,             \* its argument song_name, a sequence of characters
    scrape,               \* what requests.get and the parsing of the page did
    sanitized_song_name,  \* its local sanitized_song_name
    tabs_result           \* what the call returned or raised

\* The token cache file and the to_thread workers that run search_spotify.
VARIABLES
    cache_file,       \* the file ".cache": whether it exists, and its content
    worker_pc,        \* where each worker is in its call of search_spotify
    token_expired,    \* whether the token the worker starts with has expired
    cached_token,     \* what get_cached_token returned to the worker
    token_info,       \* the token the worker passes to save_token_to_cache
    sp_search_calls,  \* the number of sp.search calls the worker made
    spotify_result    \* what the worker's search_spotify returned or raised

pipelineVars == <<pc, endpoint, audio_path, content_len, song_info, song_name, artist_name,
                  tasks, response, files, video_ids, mktemp_calls, shm_exists>>

tabVars == <<tabs_pc, tab_song, scrape, sanitized_song_name, tabs_result>>

cacheVars == <<cache_file, worker_pc, token_expired, cached_token, token_info,
               sp_search_calls, spotify_result>>

vars == <<pipelineVars, tabVars, cacheVars>>

\* Bound: the number of concurrent search_spotify workers.
NumWorkers == 2
Workers == 1..NumWorkers

NoTasks == [spotify |-> NotStarted, lessons |-> NotStarted, tabs |-> NotStarted]

NoResponse == [status |-> 0]

InitPipeline ==
    /\ pc = [r \in Runs |-> "idle"]
    /\ endpoint = [r \in Runs |-> "none"]
    /\ audio_path = [r \in Runs |-> NoPath]
    /\ content_len = [r \in Runs |-> -1]
    /\ song_info = [r \in Runs |-> None]
    /\ song_name = [r \in Runs |-> ""]
    /\ artist_name = [r \in Runs |-> ""]
    /\ tasks = [r \in Runs |-> NoTasks]
    /\ response = [r \in Runs |-> NoResponse]
    /\ video_ids = [r \in Runs |-> Unassigned]
    /\ files = {}
    /\ mktemp_calls = 0
    /\ shm_exists \in BOOLEAN

\* No call of search_tabs is under way: no handler makes one.
NoTabsCall ==
    /\ tabs_pc = "off"
    /\ tab_song = <<>>
    /\ scrape = "none"
    /\ sanitized_song_name = <<>>
    /\ tabs_result = None

\* The token cache and the workers are left out of the pipeline runs: there
\* a lookup is its outcome (SpotifyDone).
NoWorkers ==
    /\ cache_file = [exists |-> FALSE, content |-> <<>>]
    /\ worker_pc = [w \in Workers |-> "off"]
    /\ token_expired = [w \in Workers |-> FALSE]
    /\ cached_token = [w \in Workers |-> None]
    /\ token_info = [w \in Workers |-> None]
    /\ sp_search_calls = [w \in Workers |-> 0]
    /\ spotify_result = [w \in Workers |-> None]

Init == InitPipeline /\ NoTabsCall /\ NoWorkers

\* download_audio is an ordinary blocking call inside the coroutine: while a
\* run is in it, the event loop runs no other handler code.
LoopFree == \A q \in Runs : pc[q] # "staging"

\* The loop resumes run r, suspended at `at`.
Resumes(r, at) == pc[r] = at /\ LoopFree

\* The loop takes up request r; requests are numbered in the order they arrive.
Arrives(r) == Resumes(r, "idle") /\ \A q \in Runs : q < r => pc[q] # "idle"

\* str(e) of the exceptions the handlers format into a detail.
Str(exc) ==
    CASE exc = "EmptyUpload" -> "400: Empty audio file uploaded."
      [] exc = "TooSmall" -> "400: Invalid audio file: 400: Audio file too small."
      [] exc = "NoVideos" -> "404: No videos found."
      [] exc = "NameError" -> "name 'e' is not defined"
      [] exc = "PyMongoError" -> "find_one failed"
      [] OTHER -> "request failed"

\* "except Exception as e: raise HTTPException(500, ...)" of identify_audio
\* and search_song; HTTPException is itself an Exception and is caught too.
ServerError(exc) == HTTPException(500, <<"Server error: ", Str(exc)>>)

\* What a handler answers when an exception leaves its try block:
\* find_song has no except clause, the other two wrap it in a 500.
Escaped(ep, exc) ==
    IF ep = "find_song" THEN InternalServerError ELSE ServerError(exc)

\* Both handlers answering no-track the way find_song does.
NotIdentifiedAs404(ep) == HTTPException(404, <<"Could not identify the song.">>)

\* What a handler answers when song_info holds no track.
NotIdentified(ep) ==
    IF ep = "find_song"
    THEN HTTPException(404, <<"Could not identify the song.">>)
    ELSE [status |-> 200,
          error |-> "Could not identify the song. Please try a longer or clearer audio sample."]

\* The run ends with response resp; fs is the file system it leaves.  The
\* handler's frame is gone: audio_path names nothing the run owns any more,
\* and a lookup still running is not cancelled, but nothing reads its result.
Ends(r, resp, fs) ==
    /\ pc' = [pc EXCEPT ![r] = "done"]
    /\ response' = [response EXCEPT ![r] = resp]
    /\ files' = fs
    /\ audio_path' = [audio_path EXCEPT ![r] = NoPath]
    /\ tasks' = [tasks EXCEPT ![r] = NoTasks]

\* The run suspends at `at` holding audio_path = path.
Awaits(r, at, path, fs) ==
    /\ pc' = [pc EXCEPT ![r] = at]
    /\ audio_path' = [audio_path EXCEPT ![r] = path]
    /\ files' = fs
    /\ UNCHANGED response

\* A handler that calls identify_song again when it returned an error dict.
RecognizedRetrying(r, ep, path, info, fs) ==
    /\ song_info' = [song_info EXCEPT ![r] = info]
    /\ IF HasTrack(info)
       THEN /\ song_name' = [song_name EXCEPT ![r] = info.track.title]
            /\ artist_name' = [artist_name EXCEPT ![r] = info.track.subtitle]
            /\ tasks' = [tasks EXCEPT ![r] =
                            [spotify |-> Running, lessons |-> Running, tabs |-> Running]]
            /\ Awaits(r, "enriching", path, fs)
       ELSE IF "error" \in DOMAIN info
            THEN /\ Awaits(r, "recognizing", path, fs)
                 /\ UNCHANGED <<song_name, artist_name, tasks>>
            ELSE /\ Ends(r, NotIdentified(ep), Release(fs, path))
                 /\ UNCHANGED <<song_name, artist_name>>

\* find_song / identify_audio from the return of identify_song on: no track
\* ends the run (through the finally block), a track starts the three lookups.
Recognized(r, ep, path, info, fs) ==
    /\ song_info' = [song_info EXCEPT ![r] = info]
    /\ IF HasTrack(info)
       THEN /\ song_name' = [song_name EXCEPT ![r] = info.track.title]
            /\ artist_name' = [artist_name EXCEPT ![r] = info.track.subtitle]
            /\ tasks' = [tasks EXCEPT ![r] =
                            [spotify |-> Running, lessons |-> Running, tabs |-> Running]]
            /\ Awaits(r, "enriching", path, fs)
       ELSE /\ Ends(r, NotIdentified(ep), Release(fs, path))
            /\ UNCHANGED <<song_name, artist_name>>

\* find_song up to the call of download_audio: the parameter check and the
\* choice of the output path.  download_audio is called before the try block.
FindSong(r, yt_url) ==
    /\ Arrives(r)
    /\ endpoint' = [endpoint EXCEPT ![r] = "find_song"]
    /\ UNCHANGED <<content_len, song_info, song_name, artist_name, video_ids, shm_exists, tabVars, cacheVars>>
    /\ IF yt_url = ""
       THEN /\ Ends(r, HTTPException(400, <<"YouTube URL is required.">>), files)
            /\ UNCHANGED mktemp_calls
       ELSE /\ Awaits(r, "staging", download_audio_path(shm_exists, mktemp_calls, yt_url),
                      files)
            /\ mktemp_calls' = IF shm_exists THEN mktemp_calls ELSE mktemp_calls + 1
            /\ UNCHANGED tasks

\* find_song from the end of the blocking download (which may raise and may
\* then leave partial output, modelled as a file at the output path) to
\* "await shazam.recognize", identify_song's read of the staged file included.
DownloadReturns(r, downloaded, partial) ==
    /\ pc[r] = "staging"
    /\ UNCHANGED <<endpoint, content_len, video_ids, mktemp_calls, shm_exists, tabVars, cacheVars>>
    /\ LET path == audio_path[r]
           fs == IF downloaded \/ partial THEN files \cup {path} ELSE files
       IN IF ~downloaded
          THEN /\ Ends(r, InternalServerError, fs)
               /\ UNCHANGED <<song_info, song_name, artist_name>>
          ELSE IF path \in fs
               THEN /\ Awaits(r, "recognizing", path, fs)
                    /\ UNCHANGED <<song_info, song_name, artist_name, tasks>>
               ELSE Recognized(r, "find_song", path, identify_song(FALSE, "raise"), fs)

\* identify_audio up to "await file.read()": mktemp and open(audio_path, 'wb').
IdentifyAudio(r, filename) ==
    /\ Arrives(r)
    /\ endpoint' = [endpoint EXCEPT ![r] = "identify_audio"]
    /\ mktemp_calls' = mktemp_calls + 1
    /\ Awaits(r, "reading", mktemp(mktemp_calls, Suffix(filename)),
              files \cup {mktemp(mktemp_calls, Suffix(filename))})
    /\ UNCHANGED <<content_len, song_info, song_name, artist_name, tasks, video_ids,
                   shm_exists, tabVars, cacheVars>>

\* identify_audio from the upload's bytes to "await shazam.recognize": the
\* empty check, the write, the size check and identify_song's read.
UploadRead(r, n) ==
    /\ Resumes(r, "reading")
    /\ content_len' = [content_len EXCEPT ![r] = n]
    /\ UNCHANGED <<endpoint, video_ids, mktemp_calls, shm_exists, tabVars, cacheVars>>
    /\ IF n = 0
       THEN /\ Ends(r, ServerError("EmptyUpload"), Release(files, audio_path[r]))
            /\ UNCHANGED <<song_info, song_name, artist_name>>
       ELSE IF n < MinAudioBytes
       THEN /\ Ends(r, ServerError("TooSmall"), Release(files, audio_path[r]))
            /\ UNCHANGED <<song_info, song_name, artist_name>>
       ELSE IF audio_path[r] \in files
       THEN /\ Awaits(r, "recognizing", audio_path[r], files)
            /\ UNCHANGED <<song_info, song_name, artist_name, tasks>>
       ELSE Recognized(r, "identify_audio", audio_path[r], identify_song(FALSE, "raise"), files)

\* shazam.recognize completes and the handler runs on to its next await.
RecognizeReturn(r, outcome) ==
    /\ Resumes(r, "recognizing")
    /\ Recognized(r, endpoint[r], audio_path[r], identify_song(TRUE, outcome), files)
    /\ UNCHANGED <<endpoint, content_len, video_ids, mktemp_calls, shm_exists, tabVars, cacheVars>>

\* One lookup of the run finishes with result res.
Completes(r, which, res) ==
    /\ tasks[r][which] = Running
    /\ tasks' = [tasks EXCEPT ![r][which] = Finished(res)]
    /\ UNCHANGED <<pc, endpoint, audio_path, content_len, song_info, song_name, artist_name,
                   response, files, video_ids, mktemp_calls, shm_exists, tabVars, cacheVars>>

\* The to_thread(search_spotify) worker finishes.
SpotifyDone(r, outcome) ==
    Completes(r, "spotify", search_spotify(song_name[r], artist_name[r], outcome))

\* The to_thread(get_youtube_guitar_lessons_link) worker finishes.
LessonsDone(r) ==
    Completes(r, "lessons", get_youtube_guitar_lessons_link(song_name[r], artist_name[r]))

\* The find_one future finishes.
TabsDone(r, outcome) ==
    Completes(r, "tabs", find_one(song_name[r], artist_name[r], outcome))

Raised(t) == t.state = "done" /\ t.raised
Returned(t) == t.state = "done" /\ ~t.raised

\* asyncio.gather returns: every awaited lookup has returned a value.
GatherReturns(ts, names) == \A w \in names : Returned(ts[w])

\* asyncio.gather raises: the first exception is propagated at once, the
\* other lookups are not cancelled and keep running.
GatherRaises(ts, names) == \E w \in names : Raised(ts[w])

\* The responses the handler can build from what the three lookups returned.
AggregatesOf(r) ==
    { Aggregate(song_name[r], artist_name[r], sp.value, doc.value, link.value) :
        sp \in { x \in { search_spotify(song_name[r], artist_name[r], o) :
                           o \in PipelineSpOutcomes } : ~x.raised },
        doc \in { x \in { find_one(song_name[r], artist_name[r], o) :
                            o \in FindOneOutcomes } : ~x.raised },
        link \in { get_youtube_guitar_lessons_link(song_name[r], artist_name[r]) } }

\* The exception a raised lookup hands to the gather.
ExcOf(w) == IF w = "spotify" THEN "NameError" ELSE "PyMongoError"

\* find_song / identify_audio after the gather of the three lookups returned.
Gathered(r) ==
    /\ Resumes(r, "enriching")
    /\ endpoint[r] \in {"find_song", "identify_audio"}
    /\ GatherReturns(tasks[r], {"spotify", "lessons", "tabs"})
    /\ \E resp \in AggregatesOf(r) : Ends(r, resp, Release(files, audio_path[r]))
    /\ UNCHANGED <<endpoint, content_len, song_info, song_name, artist_name, video_ids,
                   mktemp_calls, shm_exists, tabVars, cacheVars>>

\* find_song / identify_audio after the gather raised.
GatherFailed(r) ==
    /\ Resumes(r, "enriching")
    /\ endpoint[r] \in {"find_song", "identify_audio"}
    /\ GatherRaises(tasks[r], {"spotify", "lessons", "tabs"})
    /\ \E w \in {"spotify", "lessons", "tabs"} :
          /\ Raised(tasks[r][w])
          /\ Ends(r, Escaped(endpoint[r], ExcOf(w)), Release(files, audio_path[r]))
    /\ UNCHANGED <<endpoint, content_len, song_info, song_name, artist_name, video_ids,
                   mktemp_calls, shm_exists, tabVars, cacheVars>>

\* search_song up to the gather of search_spotify and the lessons link.
SearchSong(r, song, artist) ==
    /\ Arrives(r)
    /\ endpoint' = [endpoint EXCEPT ![r] = "search_song"]
    /\ song_name' = [song_name EXCEPT ![r] = song]
    /\ artist_name' = [artist_name EXCEPT ![r] = artist]
    /\ tasks' = [tasks EXCEPT ![r] =
                    [spotify |-> Running, lessons |-> Running, tabs |-> NotStarted]]
    /\ pc' = [pc EXCEPT ![r] = "enriching"]
    /\ UNCHANGED <<audio_path, content_len, song_info, response, files, video_ids,
                   mktemp_calls, shm_exists, tabVars, cacheVars>>

\* search_song after its gather returned: it awaits find_one.
SearchGathered(r) ==
    /\ Resumes(r, "enriching")
    /\ endpoint[r] = "search_song"
    /\ GatherReturns(tasks[r], {"spotify", "lessons"})
    /\ tasks' = [tasks EXCEPT ![r].tabs = Running]
    /\ pc' = [pc EXCEPT ![r] = "tab_lookup"]
    /\ UNCHANGED <<endpoint, audio_path, content_len, song_info, song_name, artist_name,
                   response, files, video_ids, mktemp_calls, shm_exists, tabVars, cacheVars>>

\* search_song after its gather raised.
SearchGatherFailed(r) ==
    /\ Resumes(r, "enriching")
    /\ endpoint[r] = "search_song"
    /\ GatherRaises(tasks[r], {"spotify", "lessons"})
    /\ \E w \in {"spotify", "lessons"} :
          /\ Raised(tasks[r][w])
          /\ Ends(r, Escaped("search_song", ExcOf(w)), files)
    /\ UNCHANGED <<endpoint, content_len, song_info, song_name, artist_name, video_ids,
                   mktemp_calls, shm_exists, tabVars, cacheVars>>

\* search_song after find_one: the aggregate, or the 500 of its except clause.
SearchTabsReturned(r) ==
    /\ Resumes(r, "tab_lookup")
    /\ tasks[r].tabs.state = "done"
    /\ IF tasks[r].tabs.raised
       THEN Ends(r, Escaped("search_song", ExcOf("tabs")), files)
       ELSE \E resp \in AggregatesOf(r) : Ends(r, resp, files)
    /\ UNCHANGED <<endpoint, content_len, song_info, song_name, artist_name, video_ids,
                   mktemp_calls, shm_exists, tabVars, cacheVars>>

\* "except Exception as e: raise HTTPException(500, ...)" of
\* youtube_lessons_videos.
FetchError(exc) == HTTPException(500, <<"Error fetching YouTube videos: ", Str(exc)>>)

\* The answer of youtube_lessons_videos once get_youtube_video_ids returned
\* or raised; the 404 is raised inside the try block, whose except clause
\* catches every Exception.
youtube_lessons_response(res) ==
    IF res.raised THEN FetchError("HttpError")
    ELSE IF res.value = <<>> THEN FetchError("NoVideos")
    ELSE [status |-> 200, video_ids |-> res.value]

\* youtube_lessons_videos: no await, the whole handler is one step.
YoutubeLessonsVideos(r, song, artist, outcome) ==
    /\ Arrives(r)
    /\ endpoint' = [endpoint EXCEPT ![r] = "youtube_lessons_videos"]
    /\ song_name' = [song_name EXCEPT ![r] = song]
    /\ artist_name' = [artist_name EXCEPT ![r] = artist]
    /\ IF song = "" \/ artist = ""
       THEN /\ Ends(r, HTTPException(400, <<"Song name and artist name are required.">>),
                    files)
            /\ UNCHANGED video_ids
       ELSE /\ Ends(r, youtube_lessons_response(get_youtube_video_ids(outcome)), files)
            /\ video_ids' = [video_ids EXCEPT ![r] = get_youtube_video_ids(outcome).value]
    /\ UNCHANGED <<content_len, song_info, mktemp_calls, shm_exists, tabVars, cacheVars>>

Next ==
    \E r \in Runs :
        \/ \E u \in YtUrls : FindSong(r, u)
        \/ \E d \in BOOLEAN, p \in BOOLEAN : DownloadReturns(r, d, p)
        \/ \E f \in FileNames : IdentifyAudio(r, f)
        \/ \E n \in ContentLens : UploadRead(r, n)
        \/ \E o \in RecognizeOutcomes : RecognizeReturn(r, o)
        \/ \E o \in PipelineSpOutcomes : SpotifyDone(r, o)
        \/ LessonsDone(r)
        \/ \E o \in FindOneOutcomes : TabsDone(r, o)
        \/ Gathered(r)
        \/ GatherFailed(r)
        \/ \E s \in SongParams \ {""}, a \in ArtistParams \ {""} : SearchSong(r, s, a)
        \/ SearchGathered(r)
        \/ SearchGatherFailed(r)
        \/ SearchTabsReturned(r)
        \/ \E s \in SongParams, a \in ArtistParams, o \in YoutubeOutcomes :
              YoutubeLessonsVideos(r, s, a, o)

Spec == Init /\ [][Next]_vars

---------------------------------------------------------------------------
\* search_tabs, called on its own (no handler calls it).

\* Longest title, in characters, that is enumerated.
MaxTitleLen == 3

UpperChars == <<"A", "B", "D", "S">>
LowerChars == <<"a", "b", "d", "s">>
Letters ==
    {UpperChars[i] : i \in DOMAIN UpperChars} \cup {LowerChars[i] : i \in DOMAIN LowerChars}
        \cup {"e", "i", "l", "n", "o", "p", "t", "v"}

\* The classes \w and \s of the pattern r"[^\w\s-]".
IsWord(c) == c \in Letters
IsSpace(c) == c \in {" ", "\t"}

\* The characters the enumerated titles are made of, and the titles.
TitleChars == {"a", "B", " ", "\t", "-", "'"}
DontStopBelievin ==
    <<"D", "o", "n", "'", "t", " ", "S", "t", "o", "p", " ",
      "B", "e", "l", "i", "e", "v", "i", "n", "'", "!">>
Titles ==
    UNION {[1..n -> TitleChars] : n \in 0..MaxTitleLen} \cup {DontStopBelievin}
TabArtist == <<"a", " ", "b">>

\* What the scrape can do: requests.get raises (both are RequestException),
\* answers another status than 200, answers 200 with or without an anchor
\* matching the selector, or the parsing of the page raises.
ScrapeOutcomes ==
    {"ConnectionError", "Timeout", "status 404", "200 without link", "200 with link",
     "parse error"}

\* re.sub(r"[^\w\s-]", "", s)
re_sub(s) == SelectSeq(s, LAMBDA c : IsWord(c) \/ IsSpace(c) \/ c = "-")

\* s.replace(old, new) for single characters.
replace(s, old, new) == [i \in DOMAIN s |-> IF s[i] = old THEN new ELSE s[i]]

\* s.lower()
lower(s) ==
    [i \in DOMAIN s |->
        IF \E k \in DOMAIN UpperChars : UpperChars[k] = s[i]
        THEN LowerChars[CHOOSE k \in DOMAIN UpperChars : UpperChars[k] = s[i]]
        ELSE s[i]]

\* sanitized_song_name of search_tabs.
sanitize(song) == lower(replace(re_sub(song), " ", "-"))

\* search_url of search_tabs.
search_url(song, artist) ==
    <<"https://www.songsterr.com/?pattern=">> \o replace(song, " ", "+")
        \o <<"+">> \o replace(artist, " ", "+")

\* The link search_tabs builds from the anchor the selector matched.
tab_link(song) ==
    <<"https://www.songsterr.com", "/a/wsa/x">> \o <<"-">> \o sanitize(song) \o <<"-tab">>

\* search_tabs with its RequestException handler missing.
search_tabs_unguarded(song, artist, outcome) ==
    IF outcome \in {"ConnectionError", "Timeout"}
    THEN [raised |-> TRUE, value |-> None]
    ELSE [raised |-> FALSE,
          value |-> IF outcome = "200 with link"
                    THEN [url |-> tab_link(song)]
                    ELSE [url |-> search_url(song, artist)]]

\* search_tabs: what it returns for each outcome of the scrape.
search_tabs(song, artist, outcome) ==
    IF outcome \in {"ConnectionError", "Timeout", "parse error"}
    THEN [raised |-> FALSE, value |-> [url |-> search_url(song, artist)]]
    ELSE IF outcome = "200 with link"
         THEN [raised |-> FALSE, value |-> [url |-> tab_link(song)]]
         ELSE [raised |-> FALSE, value |-> [url |-> search_url(song, artist)]]

\* search_tabs is called with one of the titles.
InitTabs ==
    /\ InitPipeline /\ shm_exists
    /\ tabs_pc = "called"
    /\ tab_song \in Titles
    /\ scrape = "none"
    /\ sanitized_song_name = <<>>
    /\ tabs_result = None
    /\ NoWorkers

\* search_tabs up to requests.get: the slug and the search URL are computed.
Sanitizes ==
    /\ tabs_pc = "called"
    /\ tabs_pc' = "scraping"
    /\ sanitized_song_name' = sanitize(tab_song)
    /\ UNCHANGED <<pipelineVars, cacheVars, tab_song, scrape, tabs_result>>

\* search_tabs from the end of requests.get to its return.
SearchTabsReturns(outcome) ==
    /\ tabs_pc = "scraping"
    /\ tabs_pc' = "returned"
    /\ scrape' = outcome
    /\ tabs_result' = search_tabs(tab_song, TabArtist, outcome)
    /\ UNCHANGED <<pipelineVars, cacheVars, tab_song, sanitized_song_name>>

NextTabs ==
    \/ Sanitizes
    \/ \E o \in ScrapeOutcomes : SearchTabsReturns(o)

SpecTabs == InitTabs /\ [][NextTabs]_vars

---------------------------------------------------------------------------
\* SafeCacheHandler and the search_spotify workers that use it through
\* sp.search.

\* Longest initial content of the cache file, in characters, that is enumerated.
MaxCacheLen == 3

\* The characters of the cache file: whitespace, the braces of a JSON object,
\* a character of its members, and a byte the text decoding rejects.
CacheChars == {" ", "{", "}", "a", "\\xff"}

\* The member characters of the token each worker fetches, and the lengths
\* its members can have.
TokenChars == <<"a", "b", "c", "d">>
TokenLens == {1, 2}

\* The states the cache file can be in when the workers start.
CacheFiles ==
    {[exists |-> FALSE, content |-> <<>>]} \cup
    {[exists |-> TRUE, content |-> c] :
        c \in UNION {[1..n -> CacheChars] : n \in 0..MaxCacheLen}}

\* json.dump(token_info, f): the text written for a token.
json_dump(tok) == <<"{">> \o [i \in 1..tok.len |-> TokenChars[tok.id]] \o <<"}">>

\* str.strip()
RECURSIVE strip(_)
strip(s) ==
    IF s = <<>> THEN s
    ELSE IF Head(s) = " " THEN strip(Tail(s))
    ELSE IF s[Len(s)] = " " THEN strip(SubSeq(s, 1, Len(s) - 1))
    ELSE s

\* json.loads(text): an object, or JSONDecodeError.
json_loads(text) ==
    IF /\ Len(text) >= 2
       /\ text[1] = "{"
       /\ text[Len(text)] = "}"
       /\ \A i \in 2..(Len(text) - 1) : text[i] \notin {"{", "}"}
    THEN [raised |-> FALSE,
          value |-> [members |-> SelectSeq(SubSeq(text, 2, Len(text) - 1),
                                           LAMBDA c : c # " ")]]
    ELSE [raised |-> TRUE, value |-> None]

\* f.read() of a file opened in text mode raises UnicodeDecodeError on a byte
\* that is not text.
Undecodable(content) == \E i \in DOMAIN content : content[i] = "\\xff"

\* SafeCacheHandler.get_cached_token: [raised, value]; only JSONDecodeError
\* and FileNotFoundError are caught.
get_cached_token(file) ==
    IF ~file.exists THEN [raised |-> FALSE, value |-> None]
    ELSE IF Undecodable(file.content) THEN [raised |-> TRUE, value |-> None]
    ELSE IF strip(file.content) = <<>> THEN [raised |-> FALSE, value |-> None]
    ELSE IF json_loads(strip(file.content)).raised THEN [raised |-> FALSE, value |-> None]
    ELSE json_loads(strip(file.content))

\* open(cache_path, 'w'): the file is created or truncated.
open_w(file) == [exists |-> TRUE, content |-> <<>>]

\* Leaving the with block: the buffered text is written at the start of the
\* file, over what is there.
write_at_start(file, text) ==
    [exists |-> TRUE,
     content |-> text \o SubSeq(file.content, Len(text) + 1, Len(file.content))]

\* The characters that make a token_info: the members of a saved token.
TokenMembers(tok) == [i \in 1..tok.len |-> TokenChars[tok.id]]

\* The value is a token as some fetch returned it.
IsToken(value) ==
    /\ value # None
    /\ \E id \in DOMAIN TokenChars, n \in TokenLens :
           value.members = TokenMembers([id |-> id, len |-> n])

InitCache ==
    /\ InitPipeline /\ shm_exists
    /\ NoTabsCall
    /\ cache_file \in CacheFiles
    /\ worker_pc = [w \in Workers |-> "idle"]
    /\ token_expired = [w \in Workers |-> FALSE]
    /\ cached_token = [w \in Workers |-> None]
    /\ token_info = [w \in Workers |-> None]
    /\ sp_search_calls = [w \in Workers |-> 0]
    /\ spotify_result = [w \in Workers |-> None]

\* search_spotify calls sp.search; the worker's token has expired or not.
CallsSearch(w, expired) ==
    /\ worker_pc[w] = "idle"
    /\ worker_pc' = [worker_pc EXCEPT ![w] = "called"]
    /\ token_expired' = [token_expired EXCEPT ![w] = expired]
    /\ sp_search_calls' = [sp_search_calls EXCEPT ![w] = @ + 1]
    /\ UNCHANGED <<pipelineVars, tabVars, cache_file, cached_token, token_info,
                   spotify_result>>

\* sp.search asks the cache handler for the token.  A UnicodeDecodeError out
\* of get_cached_token is a ValueError to search_spotify, which returns.
ReadsCache(w) ==
    /\ worker_pc[w] = "called"
    /\ LET got == get_cached_token(cache_file)
       IN IF got.raised
          THEN /\ worker_pc' = [worker_pc EXCEPT ![w] = "done"]
               /\ spotify_result' = [spotify_result EXCEPT ![w] =
                                        search_spotify("Song", "Artist", "ValueError")]
               /\ UNCHANGED cached_token
          ELSE /\ worker_pc' = [worker_pc EXCEPT ![w] = "read"]
               /\ cached_token' = [cached_token EXCEPT ![w] = got.value]
               /\ UNCHANGED spotify_result
    /\ UNCHANGED <<pipelineVars, tabVars, cache_file, token_expired, token_info,
                   sp_search_calls>>

\* Without a usable token the worker fetches one and save_token_to_cache
\* opens the cache file.
SaveOpens(w, n) ==
    /\ worker_pc[w] = "read"
    /\ token_expired[w] \/ ~IsToken(cached_token[w])
    /\ worker_pc' = [worker_pc EXCEPT ![w] = "saving"]
    /\ token_info' = [token_info EXCEPT ![w] = [id |-> w, len |-> n]]
    /\ cache_file' = open_w(cache_file)
    /\ UNCHANGED <<pipelineVars, tabVars, token_expired, cached_token, sp_search_calls,
                   spotify_result>>

\* save_token_to_cache leaves its with block.
SaveCloses(w) ==
    /\ worker_pc[w] = "saving"
    /\ worker_pc' = [worker_pc EXCEPT ![w] = "saved"]
    /\ cache_file' = write_at_start(cache_file, json_dump(token_info[w]))
    /\ UNCHANGED <<pipelineVars, tabVars, token_expired, cached_token, token_info,
                   sp_search_calls, spotify_result>>

\* The query of sp.search is answered and search_spotify returns or raises.
QueryReturns(w, outcome) ==
    /\ \/ worker_pc[w] = "saved"
       \/ worker_pc[w] = "read" /\ ~token_expired[w] /\ IsToken(cached_token[w])
    /\ worker_pc' = [worker_pc EXCEPT ![w] = "done"]
    /\ cached_token' = [cached_token EXCEPT ![w] = None]
    /\ spotify_result' = [spotify_result EXCEPT ![w] =
                             search_spotify("Song", "Artist", outcome)]
    /\ UNCHANGED <<pipelineVars, tabVars, cache_file, token_expired, token_info,
                   sp_search_calls>>

NextCache ==
    \E w \in Workers :
        \/ \E expired \in BOOLEAN : CallsSearch(w, expired)
        \/ ReadsCache(w)
        \/ \E n \in TokenLens : SaveOpens(w, n)
        \/ SaveCloses(w)
        \/ \E o \in PipelineSpOutcomes : QueryReturns(w, o)

SpecCache == InitCache /\ [][NextCache]_vars

(***************************************************************************)
(* Properties                                                              *)
(***************************************************************************)

\* The pipeline handlers that stage audio.
Staging == {"find_song", "identify_audio"}

\* Run r holds successfully staged audio: it is past staging and not done.
Staged(r) == endpoint[r] \in Staging /\ pc[r] \in {"recognizing", "enriching"}

\* This step is the one in which run r terminates.
Terminates(r) == pc[r] # "done" /\ pc'[r] = "done"

\* This step ends the Enriching stage of run r.
EndsEnriching(r) == pc[r] \in {"enriching", "tab_lookup"} /\ Terminates(r)

\* C1: for every run of /find-song and /identify-audio whose staging
\* succeeded, the step that terminates the run (whatever the exit path)
\* releases the run's staged file: the file is there until then, is removed
\* by that step and does not exist afterwards.
C1_ReleasedExactlyOnce ==
    [][\A r \in Runs :
          (Staged(r) /\ Terminates(r)) =>
              (audio_path[r] \in files /\ audio_path[r] \notin files')]_vars

\* C2: two /find-song runs in flight at the same time never hold the same
\* staged location.
C2_DistinctStagedLocations ==
    \A r1, r2 \in Runs :
        (/\ r1 # r2
         /\ endpoint[r1] = "find_song" /\ Staged(r1)
         /\ endpoint[r2] = "find_song" /\ Staged(r2))
        => audio_path[r1] # audio_path[r2]

\* C3: on the same endpoint, a run whose recognition failed with an error
\* and a run whose recognition found no match get different responses.
C3_FailureDistinctFromNoMatch ==
    \A r1, r2 \in Runs :
        (/\ endpoint[r1] \in Staging /\ endpoint[r2] = endpoint[r1]
         /\ pc[r1] = "done" /\ pc[r2] = "done"
         /\ "error" \in DOMAIN song_info[r1]
         /\ song_info[r2] = NoMatchResult)
        => response[r1] # response[r2]

\* C4: when exactly one of the lookups of a run raised and the others
\* returned, the run answers 200 with an aggregate that carries the fields of
\* the lookups that returned.
C4_OneFailureKeepsOtherFields ==
    [][\A r \in Runs :
          (/\ EndsEnriching(r)
           /\ Cardinality({w \in DOMAIN tasks[r] : Raised(tasks[r][w])}) = 1
           /\ \A w \in DOMAIN tasks[r] : tasks[r][w].state = "done")
          => (/\ response'[r].status = 200
              /\ {"spotify", "tabs", "youtube_lessons"} \subseteq DOMAIN response'[r]
              /\ Raised(tasks[r].tabs) =>
                    /\ response'[r].spotify \in
                          {search_spotify(song_name[r], artist_name[r], o).value :
                              o \in PipelineSpOutcomes}
                    /\ response'[r].youtube_lessons =
                          get_youtube_guitar_lessons_link(song_name[r], artist_name[r]).value)]_vars

\* C5: an upload that is empty or shorter than the minimum size is answered
\* with status 400, and neither recognition nor any lookup ran.
C5_SmallUploadIs400 ==
    \A r \in Runs :
        (/\ endpoint[r] = "identify_audio"
         /\ pc[r] = "done"
         /\ content_len[r] \in 0..(MinAudioBytes - 1))
        => (/\ response[r].status = 400
            /\ song_info[r] = None
            /\ tasks[r] = NoTasks)

\* C6: no response is produced for a run while one of its lookups is still
\* outstanding.
C6_NoResponseBeforeJoin ==
    [][\A r \in Runs :
          EndsEnriching(r) => \A w \in DOMAIN tasks[r] : tasks[r][w] # Running]_vars

\* C7: on NoMatch, /find-song answers 404 and /identify-audio answers 200
\* with an inline error field.
C7_NoMatchPerEndpoint ==
    \A r \in Runs :
        (pc[r] = "done" /\ song_info[r] = NoMatchResult) =>
            /\ endpoint[r] = "find_song" => response[r].status = 404
            /\ endpoint[r] = "identify_audio" =>
                  (response[r].status = 200 /\ "error" \in DOMAIN response[r])

\* C7 witness: a /find-song run and an /identify-audio run have both ended
\* on NoMatch.
C7_Witness ==
    \E r1, r2 \in Runs :
        /\ endpoint[r1] = "find_song" /\ endpoint[r2] = "identify_audio"
        /\ pc[r1] = "done" /\ pc[r2] = "done"
        /\ song_info[r1] = NoMatchResult /\ song_info[r2] = NoMatchResult

\* C8: a run whose recognition returned NoMatch ends at once, never starts a
\* lookup, answers with the could-not-identify marker and nothing else, and
\* its staged file is gone when it ends.
C8_NoMatchEndsRun ==
    [][\A r \in Runs :
          song_info'[r] = NoMatchResult =>
              /\ pc'[r] = "done"
              /\ \A w \in DOMAIN tasks'[r] : tasks'[r][w] = NotStarted
              /\ DOMAIN response'[r] \in {{"status", "detail"}, {"status", "error"}}
              /\ response'[r].status \in {200, 404}
              /\ Terminates(r) => audio_path[r] \notin files']_vars

\* C8 witness: a run that staged a file has ended on NoMatch.
C8_Witness ==
    \E r \in Runs :
        /\ endpoint[r] \in Staging
        /\ pc[r] = "done"
        /\ song_info[r] = NoMatchResult
        /\ response[r] = NotIdentified(endpoint[r])

\* This step is a /find-song run whose download raised.
DownloadFails(r) == pc[r] = "staging" /\ Terminates(r)

\* C9: a /find-song run whose staging failed leaves no partial staged file
\* behind.
C9_NoPartialFileLeft ==
    [][\A r \in Runs : DownloadFails(r) => files' \subseteq files]_vars

\* C10: /youtube-lessons-videos answers 400 when a parameter is empty and
\* 404, never another status, when the provider returned zero results.
C10_VideoStatuses ==
    \A r \in Runs :
        (endpoint[r] = "youtube_lessons_videos" /\ pc[r] = "done") =>
            /\ (song_name[r] = "" \/ artist_name[r] = "") => response[r].status = 400
            /\ video_ids[r] = <<>> => response[r].status = 404


\* C14: search_spotify never raises: the spotify lookup of a run never
\* finishes by raising, whatever the provider query did, so the handler
\* always gets a value (the track or an error marker) for the spotify field.
C14_SearchSpotifyNeverRaises ==
    \A r \in Runs : ~Raised(tasks[r].spotify)

\* The order in which the position of a pipeline run may change.
StageOrder ==
    {<<"idle", "staging">>, <<"idle", "reading">>, <<"idle", "done">>,
     <<"staging", "recognizing">>, <<"staging", "done">>,
     <<"reading", "recognizing">>, <<"reading", "done">>,
     <<"recognizing", "enriching">>, <<"recognizing", "done">>,
     <<"enriching", "done">>}

\* C15: the stages of a /find-song or /identify-audio run occur only in the
\* order staging, recognizing, enriching, done; recognition starts only with
\* the staged file written, enrichment starts only on a recognition result
\* that holds a track, and once recognition has returned it is not started
\* again (its result is set once).
C15_StagesInOrder ==
    [][\A r \in Runs :
          endpoint'[r] \in Staging =>
              /\ pc'[r] # pc[r] => <<pc[r], pc'[r]>> \in StageOrder
              /\ (pc[r] # "recognizing" /\ pc'[r] = "recognizing") =>
                     audio_path'[r] \in files'
              /\ (pc[r] # "enriching" /\ pc'[r] = "enriching") =>
                     "track" \in DOMAIN song_info'[r]
              /\ song_info'[r] # None => pc'[r] # "recognizing"
              /\ song_info[r] # None => song_info'[r] = song_info[r]]_vars

\* A run went through staging, recognition and enrichment to its aggregate.
C15_Witness ==
    \E r \in Runs :
        /\ endpoint[r] \in Staging /\ pc[r] = "done"
        /\ "track" \in DOMAIN song_info[r]
        /\ response[r].status = 200

\* Run r has been taken up and has not ended.
InFlight(r) == pc[r] \in {"staging", "reading", "recognizing", "enriching", "tab_lookup"}

\* The steps the server can take for run q when the operation q waits for
\* has completed, or when q is the next request to arrive.
StepOf(q) ==
    \/ \E f \in FileNames : IdentifyAudio(q, f)
    \/ \E n \in ContentLens : UploadRead(q, n)
    \/ \E o \in RecognizeOutcomes : RecognizeReturn(q, o)

\* Run q is one the server would serve next, the event loop permitting.
Servable(q) ==
    \/ pc[q] = "idle" /\ \A p \in Runs : p < q => pc[p] # "idle"
    \/ pc[q] \in {"reading", "recognizing"}

\* C16: while one run is in staging, recognition or an enrichment lookup,
\* the server can take a step of every other run that is ready for one.
C16_OtherRunsProgress ==
    \A r, q \in Runs :
        (r # q /\ InFlight(r) /\ Servable(q)) => ENABLED StepOf(q)

\* C18: the tabs field of an aggregate is the matching record's tab text or,
\* when the store holds no matching record, a link (never empty).
C18_TabsFallsBackToLink ==
    \A r \in Runs :
        (pc[r] = "done" /\ "tabs" \in DOMAIN response[r]) => response[r].tabs # NoneStr

\* This step takes run r through the finally block of its handler.
ThroughFinally(r) ==
    /\ endpoint[r] \in Staging
    /\ pc[r] \in {"reading", "recognizing", "enriching"}
    /\ Terminates(r)

\* C20: the release step removes the run's staged file when it is present
\* and changes nothing when it is absent; in both cases the run ends with the
\* response its handler built (the release raises nothing).
C20_ReleaseIdempotent ==
    [][\A r \in Runs :
          ThroughFinally(r) =>
              /\ files' = files \ {audio_path[r]}
              /\ \/ response'[r] \in AggregatesOf(r) \cup {NotIdentified(endpoint[r])}
                 \/ response'[r].status \in {400, 500}]_vars

\* A run is about to release a staged file that is already gone.
C20_Witness ==
    \E r \in Runs :
        /\ endpoint[r] \in Staging
        /\ pc[r] \in {"recognizing", "enriching"}
        /\ audio_path[r] \notin files


\* s without its characters that are neither word characters nor whitespace;
\* the hyphens of s are kept or stripped with the rest.
StripNonWord(s, hyphens) ==
    SelectSeq(s, LAMBDA c : IsWord(c) \/ IsSpace(c) \/ (hyphens /\ c = "-"))

\* s with each run of whitespace turned into one hyphen.
RECURSIVE CollapseWhitespace(_)
CollapseWhitespace(s) ==
    IF s = <<>> THEN <<>>
    ELSE IF ~IsSpace(Head(s)) THEN <<Head(s)>> \o CollapseWhitespace(Tail(s))
    ELSE IF Len(s) > 1 /\ IsSpace(s[2]) THEN CollapseWhitespace(Tail(s))
    ELSE <<"-">> \o CollapseWhitespace(Tail(s))

\* C17: the slug search_tabs computes is the title with every non-word
\* character stripped (a hyphen of the title may stay), each run of
\* whitespace turned into a single hyphen and all letters lowercased; no
\* whitespace and no uppercase letter remains in it, and
\* "Don't Stop Believin'!" yields "dont-stop-believin".
C17_SlugOfTitle ==
    tabs_pc \in {"scraping", "returned"} =>
        /\ \E hyphens \in BOOLEAN :
               sanitized_song_name =
                   lower(CollapseWhitespace(StripNonWord(tab_song, hyphens)))
        /\ \A i \in DOMAIN sanitized_song_name :
               /\ ~IsSpace(sanitized_song_name[i])
               /\ \A k \in DOMAIN UpperChars : sanitized_song_name[i] # UpperChars[k]
        /\ tab_song = DontStopBelievin =>
               sanitized_song_name =
                   <<"d", "o", "n", "t", "-", "s", "t", "o", "p", "-",
                     "b", "e", "l", "i", "e", "v", "i", "n">>

\* C19: search_tabs never raises and never returns an empty result; it
\* returns the plain search URL for every outcome of the scrape but a 200
\* answer holding a matching link, and a direct tab link only then.
C19_SearchTabsNeverFails ==
    tabs_pc = "returned" =>
        /\ ~tabs_result.raised
        /\ tabs_result.value # None
        /\ tabs_result.value.url # <<>>
        /\ scrape # "200 with link" =>
               tabs_result.value.url = search_url(tab_song, TabArtist)
        /\ tabs_result.value.url # search_url(tab_song, TabArtist) =>
               /\ scrape = "200 with link"
               /\ tabs_result.value.url = tab_link(tab_song)

\* search_tabs returned after the scrape request timed out.
C19_Witness ==
    /\ tabs_pc = "returned"
    /\ scrape = "Timeout"
    /\ tabs_result.value = [url |-> search_url(tab_song, TabArtist)]


\* C11: a catalog lookup whose token had expired and which refreshed it
\* ends, with the field populated or with the error surfaced, after exactly 2
\* query attempts (the query and its single retry after the refresh), and no
\* lookup makes a third.
C11_ExpiredTokenRetriedOnce ==
    \A w \in Workers :
        /\ sp_search_calls[w] <= 2
        /\ (worker_pc[w] = "done" /\ token_expired[w] /\ token_info[w] # None) =>
               sp_search_calls[w] = 2

\* This step is worker w's call of get_cached_token.
ReadsTheCache(w) == worker_pc[w] = "called" /\ worker_pc'[w] # "called"

\* What get_cached_token handed to worker w in this step.
ReadOf(w) ==
    IF worker_pc'[w] = "read"
    THEN [raised |-> FALSE, value |-> cached_token'[w]]
    ELSE [raised |-> TRUE, value |-> None]

\* The file holds a complete token object (whitespace around it aside).
HoldsToken(file) ==
    /\ file.exists
    /\ \E id \in DOMAIN TokenChars, n \in TokenLens :
           strip(file.content) = json_dump([id |-> id, len |-> n])

\* C12: get_cached_token never raises; it returns None when the cache file
\* is missing, empty or holds anything but a complete token object, and the
\* token when the file holds one.
C12_UnusableCacheIsMiss ==
    [][\A w \in Workers :
          ReadsTheCache(w) =>
              /\ ~ReadOf(w).raised
              /\ IF HoldsToken(cache_file)
                 THEN json_dump([id |-> CHOOSE id \in DOMAIN TokenChars :
                                            ReadOf(w).value.members[1] = TokenChars[id],
                                 len |-> Len(ReadOf(w).value.members)])
                          = strip(cache_file.content)
                 ELSE ReadOf(w).value = None]_vars

\* The tokens the workers have passed to save_token_to_cache so far.
SavedTokens == {token_info[v] : v \in {u \in Workers : token_info[u] # None}}

\* C13: once a worker has started to save, every get_cached_token returns
\* None or a complete token some worker saved, and when all workers have
\* finished the cache file holds exactly the token of one of them.
C13_ReadsAndFinalFileWhole ==
    [][/\ \A w \in Workers :
             (ReadsTheCache(w) /\ SavedTokens # {}) =>
                 /\ ~ReadOf(w).raised
                 /\ \/ ReadOf(w).value = None
                    \/ \E tok \in SavedTokens :
                           ReadOf(w).value = [members |-> TokenMembers(tok)]
       /\ ((\A w \in Workers : worker_pc'[w] = "done") /\ SavedTokens' # {}) =>
              \E tok \in SavedTokens' : cache_file'.content = json_dump(tok)]_vars

====
